---- MODULE Spec2Model ----
(***************************************************************************)
(* Identity core of acci_rust: the Redis session store (session.rs), the   *)
(* SessionManager (session_manager.rs), the AuthenticationService          *)
(* (auth.rs), the user repository (repository.rs), the error kinds         *)
(* (error.rs), the tenant binding on the connection pool                   *)
(* (core/database.rs), the RbacService (rbac.rs) and the active flag of    *)
(* the tenants (tenant/repository.rs).                                     *)
(*                                                                         *)
(* Time is counted in ticks of 10 minutes, and the clock never gives the   *)
(* same instant to two Session::new calls.  Uuid::new_v4() is a fresh      *)
(* number.  Option<T> is a sequence of length 0 (None) or 1 (Some).        *)
(* A handler is one action; the Redis MULTI/EXEC pipelines are atomic.     *)
(* Reads of the session store are modelled with a reachable Redis; the     *)
(* faults of the writes are inputs of the handlers that issue them.        *)
(* Two specifications look inside a step: SpecRace runs refresh_session    *)
(* as its two round trips to Redis, SpecExpiry lets the clock pass an      *)
(* instant before Redis drops the keys of that instant.                    *)
(***************************************************************************)
EXTENDS Integers, FiniteSets, Sequences, TLC

VARIABLES
    now,            \* OffsetDateTime::now_utc(), in ticks
    stamped,        \* a Session::new has read the clock at this instant
    users,          \* rows of the table users
    nextUid,        \* number of UserId::new() drawn so far
    updates,        \* number of update_user calls so far (bounded)
    sessionKeys,    \* Redis keys session:{sid}  -> [data, expire_at]
    tokenKeys,      \* Redis keys token:{token}  -> [sid, expire_at]
    userSessions,   \* Redis sets user:{uid}:sessions
    nextSid,        \* number of session ids drawn so far
    issued,         \* history: every session handed to a caller, and by what
    revoked,        \* history: the session ids remove_session was called for
    last,           \* the last operation and what it returned
    conns,          \* the connections of the PgPool: [setting, holder, binder]
    work,           \* per task: its place in a tenant-bound unit of work
    tenants,        \* rows of the table tenants: tenant id -> [active]
    rbac,           \* the RbacService, the user it is asked about, its last answer
    refreshing      \* the refresh_session between its get_session and its store_session

vars == <<now, stamped, users, nextUid, updates, sessionKeys, tokenKeys, userSessions,
          nextSid, issued, revoked, last, conns, work, tenants, rbac, refreshing>>

----------------------------------------------------------------------------
(* Bounds of the model *)

MaxTime == 3

MaxSessions == 3

MaxUsers == 2

MaxUpdates == 1

MaxConns == 2

(* Program constants, in ticks *)

\* JwtConfig.expiration of the SessionManager: Duration::minutes(30)
ManagerExpiration == 3

\* AuthenticationService::authenticate: time::Duration::hours(1)
AuthExpiration == 6

Tenants == {"T1", "T2"}

Emails == {"user@x.io"}

UnknownEmail == "nobody@x.io"

Passwords == {"p1", "p2"}

GoodSecret == "MZXW6YTBOI======"

BadSecret == "not base32!"

Secrets == {GoodSecret, BadSecret}

CurrentCode == "492039"

Codes == {CurrentCode, "000000"}

None == <<>>

Some(x) == <<x>>

IsSome(o) == Len(o) = 1

Unwrap(o) == o[1]

----------------------------------------------------------------------------
(* shared/error.rs *)

ErrorKinds == {"Database", "Authentication", "Authorization", "NotFound",
               "InvalidInput", "Internal", "Validation"}

\* Result<T>: Ok(value), or an error kind with its message
Ok(v) == [kind |-> "Ok", msg |-> "", value |-> Some(v)]

Err(k, m) == [kind |-> k, msg |-> m, value |-> None]

HttpStatus(kind) ==
    CASE kind = "Database"       -> 500
      [] kind = "Authentication" -> 401
      [] kind = "Authorization"  -> 403
      [] kind = "NotFound"       -> 404
      [] kind = "InvalidInput"   -> 400
      [] kind = "Internal"       -> 500
      [] kind = "Validation"     -> 400

\* The sqlx errors the repository meets
SqlxErrors == {"RowNotFound", "unique violation", "PoolTimedOut", "Io"}

\* From<sqlx::Error> that makes every error a Database error
FromSqlxDatabase(err) == Err("Database", err)

\* impl From<sqlx::Error> for Error
FromSqlx(err) ==
    IF err = "RowNotFound" THEN Err("NotFound", "Record not found")
    ELSE Err("Database", err)

----------------------------------------------------------------------------
(* session.rs: Claims, Session *)

EmptyToken == [kind |-> "empty", sub |-> 0, tenant_id |-> "", iat |-> 0, exp |-> 0]

ClaimsNew(user_id, tenant_id, expiration) ==
    [sub |-> user_id, tenant_id |-> tenant_id, iat |-> now, exp |-> now + expiration]

\* jsonwebtoken::encode with HS256: the same claims give the same token
Encode(claims) ==
    [kind |-> "jwt", sub |-> claims.sub, tenant_id |-> claims.tenant_id,
     iat |-> claims.iat, exp |-> claims.exp]

\* jsonwebtoken::decode: the signature verifies and exp has not passed
Decode(token) ==
    IF token.kind = "jwt" /\ token.exp >= now
    THEN Ok([sub |-> token.sub, tenant_id |-> token.tenant_id,
             iat |-> token.iat, exp |-> token.exp])
    ELSE Err("Authentication", "JWT error")

SessionNew(sid, user_id, tenant_id, token, expires_in) ==
    [id |-> sid, user_id |-> user_id, tenant_id |-> tenant_id, token |-> token,
     expires_at |-> now + expires_in, created_at |-> now]

IsExpired(session) == session.expires_at <= now

----------------------------------------------------------------------------
(* session.rs: RedisSessionStore.  A store value st is the three key       *)
(* families [session, token, user].                                        *)

Store == [session |-> sessionKeys, token |-> tokenKeys, user |-> userSessions]

Del(keys, k) == [x \in DOMAIN keys \ {k} |-> keys[x]]

Put(keys, k, v) == [x \in DOMAIN keys \cup {k} |-> IF x = k THEN v ELSE keys[x]]

\* SET key value; EXPIRE key ttl.  A ttl that is not positive deletes the key.
SetEx(keys, k, v, ttl) ==
    IF ttl <= 0 THEN Del(keys, k)
    ELSE Put(keys, k, v @@ [expire_at |-> now + ttl])

SMembers(st, uid) == IF uid \in DOMAIN st.user THEN st.user[uid] ELSE {}

\* SREM key member: a set left empty is no key any more
SRem(sets, uid, member) ==
    IF uid \notin DOMAIN sets THEN sets
    ELSE IF sets[uid] \ {member} = {} THEN Del(sets, uid)
    ELSE Put(sets, uid, sets[uid] \ {member})

\* (session.expires_at - OffsetDateTime::now_utc()).whole_seconds(), the ttl
\* store_session hands to EXPIRE
Ttl(session) == session.expires_at - now

\* The failures of a write: no connection, serde_json fails, the pipeline is
\* not executed, or it is executed and its reply is lost
FaultsOfStore == {"redis_conn", "serialize", "redis_pipe", "redis_reply"}

\* store_session whose five commands are sent one by one, the pipeline
\* breaking after the first SET
StoreSessionPiecewise(st, session, fault) ==
    LET ttl == Ttl(session)
        all == [session |-> SetEx(st.session, session.id, [data |-> session], ttl),
                token   |-> SetEx(st.token, session.token, [sid |-> session.id], ttl),
                user    |-> Put(st.user, session.user_id,
                                SMembers(st, session.user_id) \cup {session.id})]
    IN  IF fault = "redis_conn"
        THEN [result |-> Err("Database", "Failed to get Redis connection"), store |-> st]
        ELSE IF fault = "serialize"
        THEN [result |-> Err("Internal", "Failed to serialize session"), store |-> st]
        ELSE IF fault = "redis_pipe"
        THEN [result |-> Err("Database", "Failed to store session"),
              store |-> [st EXCEPT !.session = all.session]]
        ELSE IF fault = "redis_reply"
        THEN [result |-> Err("Database", "Failed to store session"), store |-> all]
        ELSE [result |-> Ok(TRUE), store |-> all]

\* store_session: [result, store]
StoreSession(st, session, fault) ==
    LET ttl == Ttl(session) IN
    IF fault = "redis_conn"
    THEN [result |-> Err("Database", "Failed to get Redis connection"), store |-> st]
    ELSE IF fault = "serialize"
    THEN [result |-> Err("Internal", "Failed to serialize session"), store |-> st]
    ELSE IF fault = "redis_pipe"
    THEN [result |-> Err("Database", "Failed to store session"), store |-> st]
    ELSE [result |-> IF fault = "redis_reply"
                     THEN Err("Database", "Failed to store session") ELSE Ok(TRUE),
          store  |-> [session |-> SetEx(st.session, session.id, [data |-> session], ttl),
                      token   |-> SetEx(st.token, session.token, [sid |-> session.id], ttl),
                      user    |-> Put(st.user, session.user_id,
                                      SMembers(st, session.user_id) \cup {session.id})]]

\* get_session: Option<Session>
GetSession(st, sid) ==
    IF sid \in DOMAIN st.session THEN Some(st.session[sid].data) ELSE None

\* get_session_by_token: Option<Session>
GetSessionByToken(st, token) ==
    IF token \in DOMAIN st.token THEN GetSession(st, st.token[token].sid) ELSE None

\* remove_session: the store afterwards (the result is Ok(()))
RemoveSessionIn(st, sid) ==
    LET found == GetSession(st, sid) IN
    IF IsSome(found)
    THEN LET session == Unwrap(found) IN
         [session |-> Del(st.session, sid),
          token   |-> Del(st.token, session.token),
          user    |-> SRem(st.user, session.user_id, sid)]
    ELSE st

\* remove_session that reports a session it does not find
RemoveSessionStrict(st, sid, fault) ==
    IF IsSome(GetSession(st, sid))
    THEN [result |-> Ok(TRUE), store |-> RemoveSessionIn(st, sid)]
    ELSE [result |-> Err("NotFound", "Session not found"), store |-> st]

\* remove_session with the failures of its connection and of its pipeline:
\* [result, store]
RemoveSessionWith(st, sid, fault) ==
    IF fault = "redis_conn"
    THEN [result |-> Err("Database", "Failed to get Redis connection"), store |-> st]
    ELSE IF ~IsSome(GetSession(st, sid)) THEN [result |-> Ok(TRUE), store |-> st]
    ELSE IF fault = "redis_pipe"
    THEN [result |-> Err("Database", "Failed to remove session"), store |-> st]
    ELSE IF fault = "redis_reply"
    THEN [result |-> Err("Database", "Failed to remove session"),
          store |-> RemoveSessionIn(st, sid)]
    ELSE [result |-> Ok(TRUE), store |-> RemoveSessionIn(st, sid)]

RECURSIVE RemoveEach(_, _)
RemoveEach(st, ids) ==
    IF ids = {} THEN st
    ELSE LET id == CHOOSE x \in ids : TRUE IN
         RemoveEach(RemoveSessionIn(st, id), ids \ {id})

\* remove_user_sessions that stops after the first member of the set
RemoveFirstUserSession(st, uid) ==
    IF SMembers(st, uid) = {} THEN st
    ELSE RemoveSessionIn(st, CHOOSE x \in SMembers(st, uid) : TRUE)

\* remove_user_sessions: the store afterwards (the result is Ok(()))
RemoveUserSessionsIn(st, uid) == RemoveEach(st, SMembers(st, uid))

\* Redis drops the keys whose TTL has run out at time t
ExpireKeys(keys, t) == [x \in {k \in DOMAIN keys : keys[k].expire_at > t} |-> keys[x]]

----------------------------------------------------------------------------
(* session_manager.rs: SessionManager *)

\* validate_token that trusts the signature alone and never asks the store
ValidateTokenBySignature(st, token) ==
    LET claims == Decode(token) IN
    IF claims.kind # "Ok"
    THEN [result |-> Err("Authentication", "Invalid token"), store |-> st]
    ELSE [result |-> Ok([id |-> 0, user_id |-> token.sub, tenant_id |-> token.tenant_id,
                         token |-> token, expires_at |-> token.exp,
                         created_at |-> token.iat]),
          store |-> st]

\* validate_token that refuses an expired session and leaves it in the store
ValidateTokenKeepExpired(st, token) ==
    LET found == GetSessionByToken(st, token) IN
    IF ~IsSome(found)
    THEN [result |-> Err("Authentication", "Invalid session"), store |-> st]
    ELSE LET session == Unwrap(found) IN
         IF IsExpired(session)
         THEN [result |-> Err("Authentication", "Session expired"), store |-> st]
         ELSE IF Decode(token).kind # "Ok"
         THEN [result |-> Err("Authentication", "Invalid token"), store |-> st]
         ELSE [result |-> Ok(session), store |-> st]

\* validate_token: [result, store]
ValidateTokenIn(st, token) ==
    LET found == GetSessionByToken(st, token) IN
    IF ~IsSome(found)
    THEN [result |-> Err("Authentication", "Invalid session"), store |-> st]
    ELSE LET session == Unwrap(found) IN
         IF IsExpired(session)
         THEN [result |-> Err("Authentication", "Session expired"),
               store |-> RemoveSessionIn(st, session.id)]
         ELSE IF Decode(token).kind # "Ok"
         THEN [result |-> Err("Authentication", "Invalid token"), store |-> st]
         ELSE [result |-> Ok(session), store |-> st]

\* create_session: [result, store]
CreateSessionIn(st, sid, user_id, tenant_id, fault) ==
    LET claims  == ClaimsNew(user_id, tenant_id, ManagerExpiration)
        token   == Encode(claims)
        session == SessionNew(sid, user_id, tenant_id, token, ManagerExpiration)
        stored  == StoreSession(st, session, fault)
    IN  IF stored.result.kind # "Ok"
        THEN [result |-> stored.result, store |-> stored.store]
        ELSE [result |-> Ok(session), store |-> stored.store]

\* refresh_session that removes the old session first and stores the new
\* one afterwards
RefreshSessionRemoveFirst(st, sid, session_id, fault) ==
    LET found == GetSession(st, session_id) IN
    IF ~IsSome(found)
    THEN [result |-> Err("Authentication", "Invalid session"), store |-> st]
    ELSE LET session     == Unwrap(found)
             new_session == SessionNew(sid, session.user_id, session.tenant_id,
                                       session.token, ManagerExpiration)
             stored      == StoreSession(RemoveSessionIn(st, session_id), new_session,
                                         fault)
         IN  IF stored.result.kind # "Ok"
             THEN [result |-> stored.result, store |-> stored.store]
             ELSE [result |-> Ok(new_session), store |-> stored.store]

\* refresh_session: [result, store]
RefreshSessionIn(st, sid, session_id, fault) ==
    LET found == GetSession(st, session_id) IN
    IF ~IsSome(found)
    THEN [result |-> Err("Authentication", "Invalid session"), store |-> st]
    ELSE LET session     == Unwrap(found)
             new_session == SessionNew(sid, session.user_id, session.tenant_id,
                                       session.token, ManagerExpiration)
             stored      == StoreSession(st, new_session, fault)
         IN  IF stored.result.kind # "Ok"
             THEN [result |-> stored.result, store |-> stored.store]
             ELSE [result |-> Ok(new_session), store |-> stored.store]

----------------------------------------------------------------------------
(* repository.rs: UserRepository over the rows of the table users *)

\* The WHERE clause without its tenant_id condition
MatchingEmail(rows, email, tenant_id) == {r \in rows : r.email = email}

Matching(rows, email, tenant_id) ==
    {r \in rows : r.email = email /\ r.tenant_id = tenant_id}

\* The unique index on (tenant_id, email) of the table users
UniqueViolation(rows, user) == Matching(rows, user.email, user.tenant_id) # {}

\* get_user_by_email: Option<User>
GetUserByEmail(rows, email, tenant_id) ==
    LET found == Matching(rows, email, tenant_id) IN
    IF found = {} THEN None ELSE Some(CHOOSE r \in found : TRUE)

\* update_last_login: the rows afterwards
UpdateLastLogin(rows, user_id) ==
    {IF r.id = user_id THEN [r EXCEPT !.last_login = Some(now)] ELSE r : r \in rows}

\* create_user: [result, users]
CreateUser(rows, user) ==
    IF UniqueViolation(rows, user)
    THEN [result |-> FromSqlx("unique violation"), users |-> rows]
    ELSE [result |-> Ok(user), users |-> rows \cup {user}]

\* update_user with WHERE id = $8 only
UpdateUserById(rows, user) ==
    LET hit == {r \in rows : r.id = user.id} IN
    IF hit = {} THEN [result |-> Err("NotFound", "Record not found"), users |-> rows]
    ELSE LET old == CHOOSE r \in hit : TRUE
             new == [old EXCEPT !.email = user.email,
                                !.password_hash = user.password_hash,
                                !.active = user.active,
                                !.mfa_enabled = user.mfa_enabled,
                                !.mfa_secret = user.mfa_secret]
         IN  [result |-> Ok(new), users |-> (rows \ {old}) \cup {new}]

\* update_user: [result, users]
UpdateUser(rows, user) ==
    LET hit == {r \in rows : r.id = user.id /\ r.tenant_id = user.tenant_id} IN
    IF hit = {} THEN [result |-> FromSqlx("RowNotFound"), users |-> rows]
    ELSE LET old == CHOOSE r \in hit : TRUE
             new == [old EXCEPT !.email = user.email,
                                !.password_hash = user.password_hash,
                                !.active = user.active,
                                !.mfa_enabled = user.mfa_enabled,
                                !.mfa_secret = user.mfa_secret]
         IN  [result |-> Ok(new), users |-> (rows \ {old}) \cup {new}]

\* delete_user: DELETE FROM users WHERE id = $1 AND tenant_id = $2; Ok(())
\* whether or not a row was deleted
DeleteUser(rows, id, tenant_id) ==
    [result |-> Ok(TRUE),
     users |-> {r \in rows : ~(r.id = id /\ r.tenant_id = tenant_id)}]

----------------------------------------------------------------------------
(* models.rs: User *)

UserNew(id, tenant_id, email, password_hash) ==
    [id |-> id, tenant_id |-> tenant_id, email |-> email,
     password_hash |-> password_hash, active |-> TRUE, last_login |-> None,
     mfa_enabled |-> FALSE, mfa_secret |-> None]

EnableMfa(user, secret) ==
    [user EXCEPT !.mfa_enabled = TRUE, !.mfa_secret = Some(secret)]

\* disable_mfa that clears the flag and keeps the secret
DisableMfaKeepSecret(user) == [user EXCEPT !.mfa_enabled = FALSE]

DisableMfa(user) == [user EXCEPT !.mfa_enabled = FALSE, !.mfa_secret = None]

----------------------------------------------------------------------------
(* mfa.rs: MfaService *)

\* base32::decode of the secret
Base32Decodes(secret) == secret = GoodSecret

\* verify_code: Result<bool>
VerifyCode(secret, code) ==
    IF ~Base32Decodes(secret) THEN Err("Internal", "Failed to decode secret")
    ELSE Ok(code = CurrentCode)

----------------------------------------------------------------------------
(* auth.rs: AuthenticationService *)

\* hash_password that returns the password as it is
HashPasswordPlain(password) == <<password>>

\* hash_password: the Argon2 string of the password (the salt is left out)
HashPassword(password) == <<"$argon2id$", password>>

InvalidHash == <<"not-a-valid-hash">>

\* verify_password that takes an unparsable hash for a wrong password
VerifyPasswordLenient(password, hash) ==
    Ok(Len(hash) = 2 /\ hash[1] = "$argon2id$" /\ hash[2] = password)

\* verify_password: Result<bool>
VerifyPassword(password, hash) ==
    IF ~(Len(hash) = 2 /\ hash[1] = "$argon2id$")
    THEN Err("Internal", "Failed to parse password hash")
    ELSE Ok(hash[2] = password)

Faults == {"none", "db_lookup", "db_last_login"} \cup FaultsOfStore

\* The faults the state machine injects into a login: one for each error
\* conversion of its tail
LoginFaults == {"none", "db_last_login", "redis_pipe"}

\* The tail that drops the result of store_session
IssueSessionUnchecked(rows, st, sid, user, fault) ==
    IF fault = "db_last_login"
    THEN [result |-> Err("Database", "update_last_login"), users |-> rows, store |-> st]
    ELSE LET session == SessionNew(sid, user.id, user.tenant_id, EmptyToken, AuthExpiration)
         IN  [result |-> Ok(session), users |-> UpdateLastLogin(rows, user.id),
              store |-> StoreSession(st, session, fault).store]

\* The tail of authenticate and of authenticate_with_mfa:
\* update_last_login, Session::new, store_session
IssueSession(rows, st, sid, user, fault) ==
    IF fault = "db_last_login"
    THEN [result |-> Err("Database", "update_last_login"), users |-> rows, store |-> st]
    ELSE LET rows2   == UpdateLastLogin(rows, user.id)
             session == SessionNew(sid, user.id, user.tenant_id, EmptyToken, AuthExpiration)
             stored  == StoreSession(st, session, fault)
         IN  IF stored.result.kind # "Ok"
             THEN [result |-> stored.result, users |-> rows2, store |-> stored.store]
             ELSE [result |-> Ok(session), users |-> rows2, store |-> stored.store]

\* authenticate: [result, users, store]
AuthenticateIn(rows, st, sid, credentials, fault) ==
    LET fail(e) == [result |-> e, users |-> rows, store |-> st]
        found   == GetUserByEmail(rows, credentials.email, credentials.tenant_id)
    IN  IF fault = "db_lookup" THEN fail(Err("Database", "get_user_by_email"))
        ELSE IF ~IsSome(found) THEN fail(Err("Authentication", "Invalid credentials"))
        ELSE LET user == Unwrap(found)
                 pw   == VerifyPassword(credentials.password, user.password_hash)
             IN  IF pw.kind # "Ok" THEN fail(pw)
                 ELSE IF ~Unwrap(pw.value)
                 THEN fail(Err("Authentication", "Invalid credentials"))
                 ELSE IF ~user.mfa_enabled THEN IssueSession(rows, st, sid, user, fault)
                 ELSE IF ~IsSome(credentials.mfa_code)
                 THEN fail(Err("Authentication", "MFA code required"))
                 ELSE IF ~IsSome(user.mfa_secret)
                 THEN fail(Err("Internal", "MFA secret not found"))
                 ELSE LET mfa == VerifyCode(Unwrap(user.mfa_secret),
                                            Unwrap(credentials.mfa_code)) IN
                      IF mfa.kind # "Ok" THEN fail(mfa)
                      ELSE IF ~Unwrap(mfa.value)
                      THEN fail(Err("Authentication", "Invalid MFA code"))
                      ELSE IssueSession(rows, st, sid, user, fault)

\* authenticate: the calls it makes, in the order it makes them, up to the
\* one it returns from
AuthenticateSteps(rows, credentials, fault) ==
    LET found == GetUserByEmail(rows, credentials.email, credentials.tenant_id)
        user  == Unwrap(found)
        pw    == VerifyPassword(credentials.password, user.password_hash)
        tail  == IF fault = "db_last_login" THEN <<"update_last_login">>
                 ELSE <<"update_last_login", "Session::new", "store_session">>
    IN  IF fault = "db_lookup" \/ ~IsSome(found) THEN <<"get_user_by_email">>
        ELSE IF pw.kind # "Ok" \/ ~Unwrap(pw.value)
        THEN <<"get_user_by_email", "verify_password">>
        ELSE IF ~user.mfa_enabled
        THEN <<"get_user_by_email", "verify_password">> \o tail
        ELSE IF ~IsSome(credentials.mfa_code)
        THEN <<"get_user_by_email", "verify_password", "mfa_code">>
        ELSE IF ~IsSome(user.mfa_secret)
        THEN <<"get_user_by_email", "verify_password", "mfa_code", "mfa_secret">>
        ELSE LET mfa == VerifyCode(Unwrap(user.mfa_secret), Unwrap(credentials.mfa_code))
                 upto == <<"get_user_by_email", "verify_password", "mfa_code",
                           "mfa_secret", "verify_code">>
             IN  IF mfa.kind # "Ok" \/ ~Unwrap(mfa.value) THEN upto ELSE upto \o tail

\* authenticate_with_mfa that goes to the second factor without verifying the
\* password
AuthenticateWithMfaNoPassword(rows, st, sid, credentials, mfa_code, fault) ==
    LET fail(e) == [result |-> e, users |-> rows, store |-> st]
        found   == GetUserByEmail(rows, credentials.email, credentials.tenant_id)
    IN  IF fault = "db_lookup" THEN fail(Err("Database", "get_user_by_email"))
        ELSE IF ~IsSome(found) THEN fail(Err("Authentication", "Invalid credentials"))
        ELSE LET user == Unwrap(found) IN
             IF ~user.mfa_enabled
             THEN fail(Err("Authentication", "MFA not enabled for this user"))
             ELSE IF ~IsSome(user.mfa_secret)
             THEN fail(Err("Internal", "MFA secret not found"))
             ELSE LET mfa == VerifyCode(Unwrap(user.mfa_secret), mfa_code) IN
                  IF mfa.kind # "Ok" THEN fail(mfa)
                  ELSE IF ~Unwrap(mfa.value)
                  THEN fail(Err("Authentication", "Invalid MFA code"))
                  ELSE IssueSession(rows, st, sid, user, fault)

\* authenticate_with_mfa: [result, users, store]
AuthenticateWithMfaIn(rows, st, sid, credentials, mfa_code, fault) ==
    LET fail(e) == [result |-> e, users |-> rows, store |-> st]
        found   == GetUserByEmail(rows, credentials.email, credentials.tenant_id)
    IN  IF fault = "db_lookup" THEN fail(Err("Database", "get_user_by_email"))
        ELSE IF ~IsSome(found) THEN fail(Err("Authentication", "Invalid credentials"))
        ELSE LET user == Unwrap(found)
                 pw   == VerifyPassword(credentials.password, user.password_hash)
             IN  IF pw.kind # "Ok" THEN fail(pw)
                 ELSE IF ~Unwrap(pw.value)
                 THEN fail(Err("Authentication", "Invalid credentials"))
                 ELSE IF ~user.mfa_enabled
                 THEN fail(Err("Authentication", "MFA not enabled for this user"))
                 ELSE IF ~IsSome(user.mfa_secret)
                 THEN fail(Err("Internal", "MFA secret not found"))
                 ELSE LET mfa == VerifyCode(Unwrap(user.mfa_secret), mfa_code) IN
                      IF mfa.kind # "Ok" THEN fail(mfa)
                      ELSE IF ~Unwrap(mfa.value)
                      THEN fail(Err("Authentication", "Invalid MFA code"))
                      ELSE IssueSession(rows, st, sid, user, fault)

\* register_user: [result, users]
RegisterUserIn(rows, uid, credentials) ==
    CreateUser(rows, UserNew(uid, credentials.tenant_id, credentials.email,
                             HashPassword(credentials.password)))

----------------------------------------------------------------------------
(* The state machine *)

Credentials ==
    [email : Emails \cup {UnknownEmail}, password : Passwords, tenant_id : Tenants,
     mfa_code : {None} \cup {Some(c) : c \in Codes}]

\* What the caller of the last operation saw: the operation, the user or the
\* session it was about, and the result
Done(op, uid, sid, result) ==
    [op |-> op, uid |-> uid, sid |-> sid, kind |-> result.kind, msg |-> result.msg,
     token |-> EmptyToken, gone |-> {}]

\* No refresh_session is between its two calls of the store
NoRefresh ==
    [pc |-> "idle", session_id |-> 0, old |-> None, new_session |-> None,
     raced |-> FALSE]

SetStore(st) ==
    /\ sessionKeys' = st.session
    /\ tokenKeys' = st.token
    /\ userSessions' = st.user

\* A session handed to a caller is recorded in the history; a session that
\* was stored although the handler failed has used its id and its instant
Issue(op, result) ==
    IF result.kind = "Ok"
    THEN /\ nextSid' = nextSid + 1
         /\ stamped' = TRUE
         /\ issued' = Put(issued, nextSid + 1, [session |-> Unwrap(result.value), via |-> op])
    ELSE IF (nextSid + 1) \in DOMAIN sessionKeys'
    THEN /\ nextSid' = nextSid + 1
         /\ stamped' = TRUE
         /\ UNCHANGED issued
    ELSE UNCHANGED <<nextSid, stamped, issued>>

IssuedFor(uid) == {s \in DOMAIN issued : issued[s].session.user_id = uid}

PresentedTokens == {issued[s].session.token : s \in DOMAIN issued} \cup {EmptyToken}

\* The user a login resolves, 0 when the lookup finds none
Resolved(credentials) ==
    LET found == GetUserByEmail(users, credentials.email, credentials.tenant_id) IN
    IF IsSome(found) THEN Unwrap(found).id ELSE 0

NewSid(result) == IF result.kind = "Ok" THEN Unwrap(result.value).id ELSE 0

----------------------------------------------------------------------------
(* tenant/models.rs: Tenant *)

\* Tenant::new: active
TenantNew == [active |-> TRUE]

\* TenantRepository::update_tenant: UPDATE tenants SET ... active = $3
\* WHERE id = $5, fetch_one: [result, tenants]
UpdateTenant(rows, id, tenant) ==
    IF id \notin DOMAIN rows THEN [result |-> FromSqlx("RowNotFound"), tenants |-> rows]
    ELSE [result |-> Ok(tenant), tenants |-> [rows EXCEPT ![id] = tenant]]

----------------------------------------------------------------------------
(* rbac.rs: RbacService.  The actions are those rbac.rs names
   (PermissionAction::Read, Write, Delete, Admin) and, of those models.rs
   declares besides, Create; a role is the Vec of its permissions, a
   permission its (resource, action). *)

MaxRoles == 1

MaxPerms == 1

\* The resources a check names, and those of them a permission is held on
Resources == {"posts", "other", "*"}

HeldResources == {"posts", "*"}

\* The actions a check names, and those of them a permission is held with
PermissionActions == {"Create", "Read", "Delete", "Admin"}

HeldActions == {"Read", "Admin"}

Permissions == [resource : HeldResources, action : HeldActions]

\* PermissionCheck::new
PermissionChecks == [resource : Resources, action : PermissionActions]

SeqsUpTo(S, n) == UNION {[1..k -> S] : k \in 0..n}

\* Vec<Role>, each role the Vec<Permission> it carries
RoleVecs == SeqsUpTo([permissions : SeqsUpTo(Permissions, MaxPerms)], MaxRoles)

\* A User with these roles
WithRoles(user, roles) ==
    [f \in DOMAIN user \cup {"roles"} |-> IF f = "roles" THEN roles ELSE user[f]]

\* The users a permission check is asked about
RbacUsers(roles) ==
    {WithRoles(UserNew(id, tenant_id, "user@x.io", HashPassword("p1")), roles) :
        id \in 1..2, tenant_id \in Tenants}

\* RbacService::new with a user to ask about: an empty cache, no answer yet
RbacServiceNew(roles) ==
    [permissions_cache |-> <<>>, roles |-> roles, check |-> None, answer |-> FALSE]

\* has_permission that lets Admin pass on every resource
HasPermissionAdminAnywhere(self, user, check) ==
    \E i \in DOMAIN user.roles :
        \E j \in DOMAIN user.roles[i].permissions :
            LET perm == user.roles[i].permissions[j] IN
            IF perm.action = "Admin" THEN TRUE
            ELSE perm.resource = check.resource /\ perm.action = check.action

\* has_permission that answers from the tenant's cached permissions
HasPermissionCached(self, user, check) ==
    IF user.tenant_id \in DOMAIN self.permissions_cache
    THEN check \in self.permissions_cache[user.tenant_id]
    ELSE \E i \in DOMAIN user.roles :
            \E j \in DOMAIN user.roles[i].permissions :
                LET perm == user.roles[i].permissions[j] IN
                /\ perm.resource = check.resource
                /\ IF perm.action = "Admin" THEN TRUE ELSE perm.action = check.action

\* has_permission
HasPermission(self, user, check) ==
    \E i \in DOMAIN user.roles :
        \E j \in DOMAIN user.roles[i].permissions :
            LET perm == user.roles[i].permissions[j] IN
            /\ perm.resource = check.resource
            /\ IF perm.action = "Admin" THEN TRUE ELSE perm.action = check.action

\* has_all_permissions
HasAllPermissions(self, user, checks) ==
    \A check \in checks : HasPermission(self, user, check)

\* get_user_permissions: HashSet<PermissionCheck>
GetUserPermissions(self, user) ==
    LET inserted(perm) ==
            {[resource |-> perm.resource, action |-> perm.action]}
            \cup (IF perm.action = "Admin"
                  THEN {[resource |-> perm.resource, action |-> "Read"],
                        [resource |-> perm.resource, action |-> "Write"],
                        [resource |-> perm.resource, action |-> "Delete"]}
                  ELSE {})
    IN  UNION {UNION {inserted(user.roles[i].permissions[j]) :
                         j \in DOMAIN user.roles[i].permissions} :
               i \in DOMAIN user.roles}

----------------------------------------------------------------------------
(* core/database.rs: the PgPool and the tenant binding *)

Conns == 1..MaxConns

\* The tasks that share the pool
Tasks == {"A", "B"}

\* current_setting('app.current_tenant') of a session that has not set it
NoTenant == ""

\* A pooled connection nobody holds (holder, binder: a task or "")
IdleConn == [setting |-> NoTenant, holder |-> "", binder |-> ""]

\* DatabaseConfig.username
DbUser == "postgres"

\* set_config(name, value, is_local) that ignores is_local
SetConfigSession(setting, value, is_local) ==
    [during |-> value, after |-> value]

\* SELECT set_config('app.current_tenant', value, is_local) sent as a statement
\* of its own: the value while the statement runs and the value the session
\* keeps once the statement's transaction has ended
SetConfig(setting, value, is_local) ==
    [during |-> value, after |-> IF is_local THEN setting ELSE value]

\* The rows of users a statement sees: the policy
\* tenant_id = current_setting('app.current_tenant'), which a superuser bypasses
RlsVisible(rows, setting, role) ==
    IF role = "postgres" THEN rows ELSE {r \in rows : r.tenant_id = setting}

\* list_users: SELECT ... FROM users, on a connection with this setting
ListUsers(rows, setting) == RlsVisible(rows, setting, DbUser)

\* The repository queries of a unit of work
Queries == {"list_users", "get_user_by_email"}

\* The rows a repository query returns on a connection with this setting
RunQuery(query, rows, setting, tenant_id) ==
    IF query = "list_users" THEN ListUsers(rows, setting)
    ELSE LET found == GetUserByEmail(RlsVisible(rows, setting, DbUser),
                                     "user@x.io", tenant_id)
         IN  IF IsSome(found) THEN {Unwrap(found)} ELSE {}

\* A task outside any unit of work
Resting ==
    [pc |-> "rest", tenant |-> NoTenant, query |-> "list_users", conn |-> 0,
     found |-> NoTenant, seen |-> None, rows |-> {}]

----------------------------------------------------------------------------

Init ==
    /\ now = 0
    /\ stamped = FALSE
    /\ users = {}
    /\ nextUid = 0
    /\ updates = 0
    /\ sessionKeys = <<>>
    /\ tokenKeys = <<>>
    /\ userSessions = <<>>
    /\ nextSid = 0
    /\ issued = <<>>
    /\ revoked = {}
    /\ last = Done("init", 0, 0, Ok(TRUE))
    /\ conns = [c \in Conns |-> IdleConn]
    /\ work = [task \in Tasks |-> Resting]
    /\ tenants = [t \in Tenants |-> TenantNew]
    /\ rbac = RbacServiceNew(<<>>)
    /\ refreshing = NoRefresh

Tick ==
    /\ now < MaxTime
    /\ now' = now + 1
    /\ stamped' = FALSE
    /\ sessionKeys' = ExpireKeys(sessionKeys, now + 1)
    /\ tokenKeys' = ExpireKeys(tokenKeys, now + 1)
    /\ last' = Done("tick", 0, 0, Ok(TRUE))
    /\ UNCHANGED <<refreshing, tenants, rbac, conns, work, users, nextUid, updates, userSessions, nextSid, issued, revoked>>

CreateSession(user, fault) ==
    /\ nextSid < MaxSessions
    /\ ~stamped
    /\ LET r == CreateSessionIn(Store, nextSid + 1, user.id, user.tenant_id, fault) IN
       /\ SetStore(r.store)
       /\ Issue("create_session", r.result)
       /\ last' = Done("create_session", user.id, NewSid(r.result), r.result)
    /\ UNCHANGED <<refreshing, tenants, rbac, conns, work, now, users, nextUid, updates, revoked>>

ValidateToken(token) ==
    /\ LET r == ValidateTokenIn(Store, token) IN
       /\ SetStore(r.store)
       /\ last' = [Done("validate_token", 0, NewSid(r.result), r.result)
                    EXCEPT !.token = token,
                           !.gone = DOMAIN sessionKeys \ DOMAIN r.store.session]
    /\ UNCHANGED <<refreshing, tenants, rbac, conns, work, now, stamped, users, nextUid, updates, nextSid, issued, revoked>>

RefreshSession(session_id, fault) ==
    /\ nextSid < MaxSessions
    /\ ~stamped
    /\ LET r == RefreshSessionIn(Store, nextSid + 1, session_id, fault) IN
       /\ SetStore(r.store)
       /\ Issue("refresh_session", r.result)
       /\ last' = Done("refresh_session", 0, session_id, r.result)
    /\ UNCHANGED <<refreshing, tenants, rbac, conns, work, now, users, nextUid, updates, revoked>>

RemoveSession(session_id) ==
    /\ SetStore(RemoveSessionIn(Store, session_id))
    /\ revoked' = revoked \cup {session_id}
    /\ last' = [Done("remove_session", 0, session_id,
                     RemoveSessionWith(Store, session_id, "none").result)
                 EXCEPT !.gone = DOMAIN sessionKeys \ DOMAIN sessionKeys']
    /\ UNCHANGED <<refreshing, tenants, rbac, conns, work, now, stamped, users, nextUid, updates, nextSid, issued>>

RemoveUserSessions(user_id) ==
    /\ SetStore(RemoveUserSessionsIn(Store, user_id))
    /\ last' = [Done("remove_user_sessions", user_id, 0, Ok(TRUE))
                 EXCEPT !.gone = DOMAIN sessionKeys \ DOMAIN sessionKeys']
    /\ UNCHANGED <<refreshing, tenants, rbac, conns, work, now, stamped, users, nextUid, updates, nextSid, issued, revoked>>

RegisterUser(credentials) ==
    /\ nextUid < MaxUsers
    /\ LET r == RegisterUserIn(users, nextUid + 1, credentials) IN
       /\ users' = r.users
       /\ nextUid' = IF r.result.kind = "Ok" THEN nextUid + 1 ELSE nextUid
       /\ last' = Done("register_user", nextUid + 1, 0, r.result)
    /\ UNCHANGED <<refreshing, tenants, rbac, conns, work, now, stamped, updates, sessionKeys, tokenKeys, userSessions,
                   nextSid, issued, revoked>>

\* The User values handed to update_user: a stored row with one change made
Changed(row) ==
    {[row EXCEPT !.active = FALSE], [row EXCEPT !.password_hash = InvalidHash],
     DisableMfa(row), [row EXCEPT !.mfa_enabled = TRUE]}
    \cup {EnableMfa(row, s) : s \in Secrets}

UpdateUserRow(user) ==
    /\ updates < MaxUpdates
    /\ updates' = updates + 1
    /\ LET r == UpdateUser(users, user) IN
       /\ users' = r.users
       /\ last' = Done("update_user", user.id, 0, r.result)
    /\ UNCHANGED <<refreshing, tenants, rbac, conns, work, now, stamped, nextUid, sessionKeys, tokenKeys, userSessions,
                   nextSid, issued, revoked>>

\* A fault is injected into a login only where its tail runs
Authenticate(credentials, fault) ==
    /\ nextSid < MaxSessions
    /\ ~stamped
    /\ fault # "none" =>
          AuthenticateIn(users, Store, nextSid + 1, credentials, "none").result.kind = "Ok"
    /\ LET r == AuthenticateIn(users, Store, nextSid + 1, credentials, fault) IN
       /\ users' = r.users
       /\ SetStore(r.store)
       /\ Issue("authenticate", r.result)
       /\ last' = Done("authenticate", Resolved(credentials), NewSid(r.result), r.result)
    /\ UNCHANGED <<refreshing, tenants, rbac, conns, work, now, nextUid, updates, revoked>>

AuthenticateWithMfa(credentials, mfa_code, fault) ==
    /\ nextSid < MaxSessions
    /\ ~stamped
    /\ fault # "none" =>
          AuthenticateWithMfaIn(users, Store, nextSid + 1, credentials, mfa_code,
                                "none").result.kind = "Ok"
    /\ LET r == AuthenticateWithMfaIn(users, Store, nextSid + 1, credentials,
                                      mfa_code, fault) IN
       /\ users' = r.users
       /\ SetStore(r.store)
       /\ Issue("authenticate_with_mfa", r.result)
       /\ last' = Done("authenticate_with_mfa", Resolved(credentials),
                       NewSid(r.result), r.result)
    /\ UNCHANGED <<refreshing, tenants, rbac, conns, work, now, nextUid, updates, revoked>>

\* The sign-ups the state machine makes: the same email in either tenant, each
\* with its own password
Registrations ==
    {[email |-> "user@x.io", password |-> "p1", tenant_id |-> "T1", mfa_code |-> None],
     [email |-> "user@x.io", password |-> "p2", tenant_id |-> "T2", mfa_code |-> None]}

\* The logins the state machine makes: a registered email, any password, tenant
\* and code
Logins == {c \in Credentials : c.email \in Emails}

LoginsWithMfa == {c \in Logins : c.mfa_code = None}

\* Two users are registered, under the same email in different tenants
InitSessions ==
    /\ now = 0
    /\ stamped = FALSE
    /\ users = {UserNew(1, "T1", "user@x.io", HashPassword("p1")),
                UserNew(2, "T2", "user@x.io", HashPassword("p2"))}
    /\ nextUid = 2
    /\ updates = 0
    /\ sessionKeys = <<>>
    /\ tokenKeys = <<>>
    /\ userSessions = <<>>
    /\ nextSid = 0
    /\ issued = <<>>
    /\ revoked = {}
    /\ last = Done("init", 0, 0, Ok(TRUE))
    /\ conns = [c \in Conns |-> IdleConn]
    /\ work = [task \in Tasks |-> Resting]
    /\ tenants = [t \in Tenants |-> TenantNew]
    /\ rbac = RbacServiceNew(<<>>)
    /\ refreshing = NoRefresh

\* The session lifecycle: the SessionManager, the clock
Next ==
    \/ Tick
    \/ \E user \in users, fault \in {"none", "redis_pipe"} : CreateSession(user, fault)
    \/ \E token \in PresentedTokens : ValidateToken(token)
    \/ \E sid \in 1..nextSid, fault \in {"none", "redis_pipe"} :
          RefreshSession(sid, fault)
    \/ \E sid \in 1..nextSid : RemoveSession(sid)
    \/ \E uid \in 1..nextUid : RemoveUserSessions(uid)

Spec == InitSessions /\ [][Next]_vars

\* The logins at one instant: registration, changes of the user rows, both
\* login entry points with every fault
NextAuth ==
    \/ \E credentials \in Registrations : RegisterUser(credentials)
    \/ \E row \in users, tenant_id \in Tenants :
          \E user \in Changed(row) : UpdateUserRow([user EXCEPT !.tenant_id = tenant_id])
    \/ \E credentials \in Logins, fault \in LoginFaults :
          Authenticate(credentials, fault)
    \/ \E credentials \in LoginsWithMfa, mfa_code \in Codes, fault \in LoginFaults :
          AuthenticateWithMfa(credentials, mfa_code, fault)

SpecAuth == Init /\ [][NextAuth]_vars

\* Logins over a clock, with the SessionManager refreshing and validating the
\* sessions of the same Redis
NextLogin ==
    \/ Tick
    \/ \E credentials \in Registrations : Authenticate(credentials, "none")
    \/ \E user \in users : CreateSession(user, "none")
    \/ \E sid \in 1..nextSid : RefreshSession(sid, "none")

SpecLogin == InitSessions /\ [][NextLogin]_vars

\* DEL session:{sid} issued to Redis directly, past the SessionStore
DeleteSessionKey(sid) ==
    /\ sid \in DOMAIN sessionKeys
    /\ sessionKeys' = Del(sessionKeys, sid)
    /\ last' = [Done("del_session_key", 0, sid, Ok(TRUE)) EXCEPT !.gone = {sid}]
    /\ UNCHANGED <<refreshing, tenants, rbac, conns, work, now, stamped, users, nextUid, updates, tokenKeys, userSessions,
                   nextSid, issued, revoked>>

\* Sessions created, refreshed and validated while an operator deletes
\* session keys
NextDel ==
    \/ Tick
    \/ \E user \in users : CreateSession(user, "none")
    \/ \E token \in PresentedTokens : ValidateToken(token)
    \/ \E sid \in 1..nextSid : RefreshSession(sid, "none")
    \/ \E sid \in 1..nextSid : DeleteSessionKey(sid)

SpecDel == InitSessions /\ [][NextDel]_vars

\* The session store under every outcome of its pipelines: sessions created,
\* refreshed and removed over a clock
NextStore ==
    \/ Tick
    \/ \E user \in users, fault \in {"none", "redis_pipe", "redis_reply"} :
          CreateSession(user, fault)
    \/ \E sid \in 1..nextSid : RefreshSession(sid, "none")
    \/ \E sid \in 1..nextSid : RemoveSession(sid)

SpecStore == InitSessions /\ [][NextStore]_vars

----------------------------------------------------------------------------
(* The clock of the application against the expiry of Redis: EXPIRE starts
   to count when the pipeline reaches Redis, after Session::new has fixed
   expires_at, so a key outlives the expires_at of its session for a moment *)

\* OffsetDateTime::now_utc() passes an instant whose keys Redis still holds
ClockPasses ==
    /\ now < MaxTime
    /\ ExpireKeys(sessionKeys, now) = sessionKeys
    /\ ExpireKeys(tokenKeys, now) = tokenKeys
    /\ now' = now + 1
    /\ stamped' = FALSE
    /\ last' = Done("tick", 0, 0, Ok(TRUE))
    /\ UNCHANGED <<refreshing, tenants, rbac, conns, work, users, nextUid, updates, sessionKeys,
                   tokenKeys, userSessions, nextSid, issued, revoked>>

\* Redis drops the keys whose TTL has run out
RedisExpires ==
    /\ \/ ExpireKeys(sessionKeys, now) # sessionKeys
       \/ ExpireKeys(tokenKeys, now) # tokenKeys
    /\ sessionKeys' = ExpireKeys(sessionKeys, now)
    /\ tokenKeys' = ExpireKeys(tokenKeys, now)
    /\ last' = Done("expire", 0, 0, Ok(TRUE))
    /\ UNCHANGED <<refreshing, tenants, rbac, conns, work, now, stamped, users, nextUid, updates,
                   userSessions, nextSid, issued, revoked>>

NextExpiry ==
    \/ ClockPasses
    \/ RedisExpires
    \/ \E user \in users : CreateSession(user, "none")
    \/ \E sid \in 1..nextSid : RefreshSession(sid, "none")
    \/ \E token \in PresentedTokens : ValidateToken(token)

SpecExpiry == InitSessions /\ [][NextExpiry]_vars

----------------------------------------------------------------------------
(* SessionStore::store_session called with a session its caller holds: the
   session was made by Session::new at created_at with some lifetime, and is
   stored now *)

\* The expires_in handed to Session::new, in ticks
Lifetimes == {1, ManagerExpiration}

StoreHeldSession(user, created_at, expires_in) ==
    /\ nextSid < MaxSessions
    /\ LET claims  == [sub |-> user.id, tenant_id |-> user.tenant_id,
                       iat |-> created_at, exp |-> created_at + expires_in]
           session == [id |-> nextSid + 1, user_id |-> user.id,
                       tenant_id |-> user.tenant_id, token |-> Encode(claims),
                       expires_at |-> created_at + expires_in,
                       created_at |-> created_at]
           stored  == StoreSession(Store, session, "none")
       IN  /\ SetStore(stored.store)
           /\ nextSid' = nextSid + 1
           /\ issued' = Put(issued, nextSid + 1,
                            [session |-> session, via |-> "store_session"])
           /\ last' = Done("store_session", user.id, session.id, stored.result)
                          @@ [ttl |-> Ttl(session)]
    /\ UNCHANGED <<refreshing, tenants, rbac, conns, work, now, stamped, users, nextUid, updates,
                   revoked>>

NextHeld ==
    \/ Tick
    \/ \E user \in users, created_at \in 0..now, expires_in \in Lifetimes :
          StoreHeldSession(user, created_at, expires_in)

SpecHeld == InitSessions /\ [][NextHeld]_vars

----------------------------------------------------------------------------
(* The second factor switched on and off: a stored user is changed through
   enable_mfa and disable_mfa alone and written back, between logins *)

\* user.enable_mfa(secret), then update_user(user)
EnableMfaRow(row, secret) ==
    /\ LET r == UpdateUser(users, EnableMfa(row, secret)) IN
       /\ users' = r.users
       /\ last' = Done("enable_mfa", row.id, 0, r.result)
    /\ UNCHANGED <<refreshing, tenants, rbac, conns, work, now, stamped, nextUid, updates,
                   sessionKeys, tokenKeys, userSessions, nextSid, issued, revoked>>

\* user.disable_mfa(), then update_user(user)
DisableMfaRow(row) ==
    /\ LET r == UpdateUser(users, DisableMfa(row)) IN
       /\ users' = r.users
       /\ last' = Done("disable_mfa", row.id, 0, r.result)
    /\ UNCHANGED <<refreshing, tenants, rbac, conns, work, now, stamped, nextUid, updates,
                   sessionKeys, tokenKeys, userSessions, nextSid, issued, revoked>>

NextMfa ==
    \/ \E credentials \in Registrations : RegisterUser(credentials)
    \/ \E row \in users, secret \in Secrets : EnableMfaRow(row, secret)
    \/ \E row \in users : DisableMfaRow(row)
    \/ \E credentials \in Logins : Authenticate(credentials, "none")
    \/ \E credentials \in LoginsWithMfa, mfa_code \in Codes :
          AuthenticateWithMfa(credentials, mfa_code, "none")

SpecMfa == Init /\ [][NextMfa]_vars

----------------------------------------------------------------------------
(* refresh_session next to the removals of another task: its get_session and
   its store_session are two round trips to Redis, and a remove_session or a
   remove_user_sessions can run between them *)

\* refresh_session up to Session::new: the session is read and the new one
\* is made; an unknown id ends the call
RefreshRead(session_id) ==
    /\ refreshing.pc # "store"
    /\ nextSid < MaxSessions
    /\ ~stamped
    /\ LET found == GetSession(Store, session_id) IN
       IF ~IsSome(found)
       THEN /\ last' = Done("refresh_session", 0, session_id,
                            Err("Authentication", "Invalid session"))
            /\ UNCHANGED <<refreshing, nextSid, stamped>>
       ELSE LET session == Unwrap(found) IN
            /\ refreshing' =
                   [pc |-> "store", session_id |-> session_id, old |-> Some(session),
                    new_session |-> Some(SessionNew(nextSid + 1, session.user_id,
                                                    session.tenant_id, session.token,
                                                    ManagerExpiration)),
                    raced |-> FALSE]
            /\ nextSid' = nextSid + 1
            /\ stamped' = TRUE
            /\ UNCHANGED last
    /\ UNCHANGED <<tenants, rbac, conns, work, now, users, nextUid, updates,
                   sessionKeys, tokenKeys, userSessions, issued, revoked>>

\* refresh_session from store_session on.  The refresh has raced with a
\* removal when the session it read is gone from the store before its time
RefreshStore ==
    /\ refreshing.pc = "store"
    /\ LET new_session == Unwrap(refreshing.new_session)
           stored      == StoreSession(Store, new_session, "none")
       IN  /\ SetStore(stored.store)
           /\ issued' = Put(issued, new_session.id,
                            [session |-> new_session, via |-> "refresh_session"])
           /\ last' = Done("refresh_session", new_session.user_id,
                           refreshing.session_id, Ok(new_session))
           /\ refreshing' =
                  [refreshing EXCEPT
                      !.pc = "done",
                      !.raced = /\ ~IsSome(GetSession(Store, refreshing.session_id))
                                /\ ~IsExpired(Unwrap(refreshing.old))]
    /\ UNCHANGED <<tenants, rbac, conns, work, now, stamped, users, nextUid, updates,
                   nextSid, revoked>>

NextRace ==
    \/ Tick
    \/ \E user \in users : CreateSession(user, "none")
    \/ \E sid \in 1..nextSid : RefreshRead(sid)
    \/ RefreshStore
    \/ \E sid \in 1..nextSid : RemoveSession(sid)
    \/ \E uid \in 1..nextUid : RemoveUserSessions(uid)

SpecRace == InitSessions /\ [][NextRace]_vars

----------------------------------------------------------------------------
(* Units of work on the shared pool: set_tenant_context(tenant), a repository
   query, clear_tenant_context(), each on the connection pool.acquire() or
   the executor &self.pool gives it *)

identity == <<now, stamped, users, nextUid, updates, sessionKeys, tokenKeys,
              userSessions, nextSid, issued, revoked, last, tenants, rbac, refreshing>>

\* A task starts a unit of work for a tenant
Begin(task, tenant, query) ==
    /\ work[task].pc = "rest"
    /\ work' = [work EXCEPT ![task] =
                   [Resting EXCEPT !.pc = "set_tenant_context", !.tenant = tenant,
                                   !.query = query]]
    /\ UNCHANGED <<conns, identity>>

\* pool.acquire(): any connection nobody holds
Acquire(task, conn) ==
    /\ work[task].pc # "rest"
    /\ work[task].conn = 0
    /\ conns[conn].holder = ""
    /\ conns' = [conns EXCEPT ![conn].holder = task]
    /\ work' = [work EXCEPT ![task].conn = conn, ![task].found = conns[conn].setting]
    /\ UNCHANGED identity

\* The connection is dropped: it goes back to the pool as it is
Release(conn, setting, binder) ==
    conns' = [conns EXCEPT ![conn] =
                 [setting |-> setting, holder |-> "", binder |-> binder]]

\* set_tenant_context on its connection: the statement, then the drop; a
\* failed statement returns the error and ends the unit of work
SetTenantContext(task, failed) ==
    LET conn == work[task].conn IN
    /\ work[task].pc = "set_tenant_context"
    /\ conn # 0
    /\ IF failed
       THEN /\ Release(conn, conns[conn].setting, conns[conn].binder)
            /\ work' = [work EXCEPT ![task].pc = "rest", ![task].conn = 0]
       ELSE /\ Release(conn, SetConfig(conns[conn].setting, work[task].tenant, TRUE).after,
                       task)
            /\ work' = [work EXCEPT ![task].pc = "query", ![task].conn = 0]
    /\ UNCHANGED identity

\* A repository query on the connection the pool gave it; a failed query
\* returns the error and ends the unit of work
Query(task, failed) ==
    LET conn == work[task].conn IN
    /\ work[task].pc = "query"
    /\ conn # 0
    /\ Release(conn, conns[conn].setting, conns[conn].binder)
    /\ IF failed
       THEN work' = [work EXCEPT ![task].pc = "rest", ![task].conn = 0]
       ELSE work' = [work EXCEPT ![task].pc = "clear_tenant_context",
                                 ![task].conn = 0,
                                 ![task].seen = Some(conns[conn].setting),
                                 ![task].rows = RunQuery(work[task].query, users,
                                                        conns[conn].setting,
                                                        work[task].tenant)]
    /\ UNCHANGED identity

\* clear_tenant_context on its connection: the statement, then the drop
ClearTenantContext(task, failed) ==
    LET conn == work[task].conn IN
    /\ work[task].pc = "clear_tenant_context"
    /\ conn # 0
    /\ Release(conn,
               IF failed THEN conns[conn].setting
               ELSE SetConfig(conns[conn].setting, NoTenant, TRUE).after,
               conns[conn].binder)
    /\ work' = [work EXCEPT ![task].pc = "rest", ![task].conn = 0]
    /\ UNCHANGED identity

----------------------------------------------------------------------------
(* Administration next to the logins: users deleted and tenants switched
   off and on while sessions are issued and validated *)

\* IdentityModule::delete_user
DeleteUserRow(id, tenant_id) ==
    /\ LET r == DeleteUser(users, id, tenant_id) IN
       /\ users' = r.users
       /\ last' = Done("delete_user", id, 0, r.result)
    /\ UNCHANGED <<refreshing, tenants, rbac, conns, work, now, stamped, nextUid, updates,
                   sessionKeys, tokenKeys, userSessions, nextSid, issued, revoked>>

\* update_tenant with the active flag changed
UpdateTenantRow(id, active) ==
    /\ tenants[id].active # active
    /\ LET r == UpdateTenant(tenants, id, [tenants[id] EXCEPT !.active = active]) IN
       /\ tenants' = r.tenants
       /\ last' = Done("update_tenant", 0, 0, r.result)
    /\ UNCHANGED <<refreshing, rbac, conns, work, now, stamped, users, nextUid, updates,
                   sessionKeys, tokenKeys, userSessions, nextSid, issued, revoked>>

NextAdmin ==
    \/ Tick
    \/ \E credentials \in Registrations : Authenticate(credentials, "none")
    \/ \E user \in users : CreateSession(user, "none")
    \/ \E token \in PresentedTokens : ValidateToken(token)
    \/ \E user \in users : DeleteUserRow(user.id, user.tenant_id)
    \/ \E id \in Tenants, active \in BOOLEAN : UpdateTenantRow(id, active)

SpecAdmin == InitSessions /\ [][NextAdmin]_vars

----------------------------------------------------------------------------
(* Permission checks of an RbacService about one user *)

\* The user the checks are about
RbacUser == WithRoles(UserNew(1, "T1", "user@x.io", HashPassword("p1")), rbac.roles)

InitRbac ==
    /\ now = 0
    /\ stamped = FALSE
    /\ users = {}
    /\ nextUid = 0
    /\ updates = 0
    /\ sessionKeys = <<>>
    /\ tokenKeys = <<>>
    /\ userSessions = <<>>
    /\ nextSid = 0
    /\ issued = <<>>
    /\ revoked = {}
    /\ last = Done("init", 0, 0, Ok(TRUE))
    /\ conns = [c \in Conns |-> IdleConn]
    /\ work = [task \in Tasks |-> Resting]
    /\ tenants = [t \in Tenants |-> TenantNew]
    /\ rbac \in {RbacServiceNew(roles) : roles \in RoleVecs}
    /\ refreshing = NoRefresh

others == <<now, stamped, users, nextUid, updates, sessionKeys, tokenKeys,
            userSessions, nextSid, issued, revoked, last, conns, work, tenants,
            refreshing>>

\* has_permission(user, check), its answer kept
AskPermission(check) ==
    /\ rbac' = [rbac EXCEPT !.check = Some(check),
                            !.answer = HasPermission(rbac, RbacUser, check)]
    /\ UNCHANGED others

\* cache_tenant_permissions
CacheTenantPermissions(tenant_id, permissions) ==
    /\ rbac' = [rbac EXCEPT !.permissions_cache = Put(@, tenant_id, permissions)]
    /\ UNCHANGED others

NextRbac ==
    \/ \E check \in PermissionChecks : AskPermission(check)
    \/ \E tenant_id \in Tenants : CacheTenantPermissions(tenant_id, PermissionChecks)

SpecRbac == InitRbac /\ [][NextRbac]_vars

NextPool ==
    \/ \E task \in Tasks, tenant \in Tenants, query \in Queries :
          Begin(task, tenant, query)
    \/ \E task \in Tasks, conn \in Conns : Acquire(task, conn)
    \/ \E task \in Tasks, failed \in BOOLEAN : SetTenantContext(task, failed)
    \/ \E task \in Tasks, failed \in BOOLEAN : Query(task, failed)
    \/ \E task \in Tasks, failed \in BOOLEAN : ClearTenantContext(task, failed)

SpecPool == InitSessions /\ [][NextPool]_vars

----------------------------------------------------------------------------
(* Properties *)

\* The sessions of the store that carry a token
StoredWith(token) ==
    {sid \in DOMAIN sessionKeys : sessionKeys[sid].data.token = token}

\* C1: validate_token(token) returns a session only if a session for that
\* token is in the session store at that time; for a token whose signature
\* verifies and has not expired but whose session is gone from the store it
\* returns the Authentication error.
C1_ValidateNeedsStoredSession ==
    \A token \in PresentedTokens :
        LET r == ValidateTokenIn(Store, token).result IN
        /\ r.kind = "Ok" => Unwrap(r.value).id \in StoredWith(token)
        /\ StoredWith(token) = {} => r.kind = "Authentication"

\* C1 witness: validate_token has just refused a token that still decodes and
\* still has its token key, after its session key was deleted directly
C1_Witness ==
    /\ last.op = "validate_token"
    /\ last.kind = "Authentication"
    /\ Decode(last.token).kind = "Ok"
    /\ last.token \in DOMAIN tokenKeys
    /\ StoredWith(last.token) = {}

\* C2: every session issued by create_session or by a successful authenticate
\* validates, validate_token(s.token) returning the session with id s.id, at
\* every time before s.expires_at as long as remove_session(s.id) was not
\* called.
C2_FreshSessionValidates ==
    \A s \in DOMAIN issued :
        LET session == issued[s].session IN
        (/\ issued[s].via \in {"create_session", "authenticate"}
         /\ now < session.expires_at
         /\ s \notin revoked)
        => LET r == ValidateTokenIn(Store, session.token).result IN
           r.kind = "Ok" /\ Unwrap(r.value).id = s

\* C3: when remove_user_sessions(u) has returned, validate_token(s.token)
\* fails with the Authentication error and get_session(s.id) is absent, for
\* every session s issued for u before the call.
C3_LogoutAllRevokes ==
    last.op = "remove_user_sessions" =>
        \A s \in IssuedFor(last.uid) :
            /\ ValidateTokenIn(Store, issued[s].session.token).result.kind
                   = "Authentication"
            /\ GetSession(Store, s) = None

\* C3 witness: remove_user_sessions has just removed two stored sessions of
\* the user
C3_Witness ==
    /\ last.op = "remove_user_sessions"
    /\ Cardinality(last.gone) >= 2
    /\ last.gone \subseteq IssuedFor(last.uid)

\* C4: once remove_session(s.id) has returned, validate_token(s.token) fails,
\* for every session s and every history, one with refreshes included.
C4_LogoutInvalidatesToken ==
    \A s \in revoked \cap DOMAIN issued :
        ValidateTokenIn(Store, issued[s].session.token).result.kind # "Ok"

C6_InactiveUserCannotLogin ==
    \A credentials \in Credentials, mfa_code \in Codes :
        LET found == GetUserByEmail(users, credentials.email, credentials.tenant_id)
            a == AuthenticateIn(users, Store, nextSid + 1, credentials, "none")
            m == AuthenticateWithMfaIn(users, Store, nextSid + 1, credentials,
                                       mfa_code, "none")
        IN  (IsSome(found) /\ ~Unwrap(found).active) =>
                /\ a.result.kind = "Authentication" /\ a.store = Store
                /\ m.result.kind = "Authentication" /\ m.store = Store

\* C7: authenticate for a user with mfa_enabled, the right password and no
\* mfa_code returns the kind MFARequired, which is not the kind returned for
\* a wrong password.
C7_MfaRequiredIsDistinctKind ==
    \A credentials \in Credentials, wrong \in Passwords :
        LET found == GetUserByEmail(users, credentials.email, credentials.tenant_id)
            r == AuthenticateIn(users, Store, nextSid + 1, credentials, "none").result
            bad == AuthenticateIn(users, Store, nextSid + 1,
                                  [credentials EXCEPT !.password = wrong], "none").result
        IN  (/\ IsSome(found)
             /\ Unwrap(found).mfa_enabled
             /\ Unwrap(found).password_hash = HashPassword(credentials.password)
             /\ credentials.mfa_code = None
             /\ wrong # credentials.password)
            => r.kind = "MFARequired" /\ r.kind # bad.kind

\* C8: when the stored password_hash of the resolved user cannot be parsed,
\* authenticate returns the Internal kind for every password, never the
\* Authentication kind, and stores no session.
C8_UnparsableHashIsInternal ==
    \A credentials \in Credentials, fault \in Faults \ {"db_lookup"} :
        LET found == GetUserByEmail(users, credentials.email, credentials.tenant_id)
            r == AuthenticateIn(users, Store, nextSid + 1, credentials, fault)
        IN  (IsSome(found) /\ Unwrap(found).password_hash = InvalidHash) =>
                /\ r.result.kind = "Internal"
                /\ HttpStatus(r.result.kind) = 500
                /\ r.store = Store

\* C8 witness: authenticate has just failed on the hash of a stored user
C8_Witness ==
    /\ last.op = "authenticate"
    /\ last.kind = "Internal"
    /\ last.msg = "Failed to parse password hash"
    /\ \E u \in users : u.id = last.uid /\ u.password_hash = InvalidHash

\* C9: update_last_login is best-effort: a login that passes every check
\* returns its session also when update_last_login fails.
C9_LastLoginIsBestEffort ==
    \A credentials \in Credentials :
        AuthenticateIn(users, Store, nextSid + 1, credentials, "none").result.kind = "Ok"
        => AuthenticateIn(users, Store, nextSid + 1, credentials,
                          "db_last_login").result.kind = "Ok"

\* C10 as stated: when every check passes and storing the session fails,
\* authenticate returns the Internal kind.
C10_StoreFailureIsInternal ==
    \A credentials \in Credentials, fault \in FaultsOfStore :
        AuthenticateIn(users, Store, nextSid + 1, credentials, "none").result.kind = "Ok"
        => AuthenticateIn(users, Store, nextSid + 1, credentials,
                          fault).result.kind = "Internal"

\* C10 as amended: when every check passes and storing the session fails,
\* authenticate returns the error of store_session as it is: the Database
\* kind when the Redis connection or the pipeline fails, the Internal kind
\* when the session cannot be serialized; the status is 500 and no session is
\* returned.
C10_StoreFailurePropagates ==
    \A credentials \in Credentials, fault \in FaultsOfStore :
        AuthenticateIn(users, Store, nextSid + 1, credentials, "none").result.kind = "Ok"
        => LET r == AuthenticateIn(users, Store, nextSid + 1, credentials, fault) IN
           /\ r.result.kind = IF fault = "serialize" THEN "Internal" ELSE "Database"
           /\ HttpStatus(r.result.kind) = 500
           /\ r.result.value = None

\* C10 witness: a login that passed every check has just failed in the
\* pipeline of store_session
C10_Witness ==
    /\ last.op = "authenticate"
    /\ last.kind = "Database"
    /\ last.msg = "Failed to store session"
    /\ DOMAIN sessionKeys = {}

\* C11: refresh_session(S1.id) returns a session S2 with S2.id # S1.id and
\* S2.token # S1.token, for every stored session S1.
C11_RefreshIssuesNewIdAndToken ==
    (last.op = "refresh_session" /\ last.kind = "Ok") =>
        /\ issued[nextSid].session.id # last.sid
        /\ issued[nextSid].session.token # issued[last.sid].session.token

\* C12: once refresh_session(S1.id) has returned successfully,
\* get_session(S1.id) is absent (the old session was removed after the new
\* one was stored).
C12_RefreshRemovesOldSession ==
    (last.op = "refresh_session" /\ last.kind = "Ok") =>
        GetSession(Store, last.sid) = None

\* C13: refresh_session returns a session whose expires_at is strictly later
\* than the expires_at of the session it refreshes, for every stored session
\* and every time of the refresh.
C13_RefreshExtendsExpiry ==
    (last.op = "refresh_session" /\ last.kind = "Ok") =>
        issued[nextSid].session.expires_at > issued[last.sid].session.expires_at

\* The three key families of a session: session:{id}, token:{token} naming
\* the id, and the id in user:{uid}:sessions
Families(st, session) ==
    <<session.id \in DOMAIN st.session,
      session.token \in DOMAIN st.token,
      session.id \in SMembers(st, session.user_id)>>

\* C14: store_session and remove_session update the three key families of a
\* session together: whatever failure hits the operation, afterwards either
\* the store is as it was, or all three families are written (store_session)
\* or all three are deleted (remove_session) for that session.
C14_ThreeFamiliesTogether ==
    \A fault \in {"none"} \cup FaultsOfStore :
        /\ \A user \in users :
               \A token \in {Encode(ClaimsNew(user.id, user.tenant_id, ManagerExpiration))}
                             \cup {sessionKeys[s].data.token : s \in DOMAIN sessionKeys} :
                   LET session == SessionNew(nextSid + 1, user.id, user.tenant_id, token,
                                             ManagerExpiration)
                       after == StoreSession(Store, session, fault).store
                   IN  \/ after = Store
                       \/ /\ Families(after, session) = <<TRUE, TRUE, TRUE>>
                          /\ after.token[token].sid = session.id
        /\ \A sid \in DOMAIN sessionKeys :
               LET session == sessionKeys[sid].data
                   after == RemoveSessionWith(Store, sid, fault).store
               IN  \/ after = Store
                   \/ Families(after, session) = <<FALSE, FALSE, FALSE>>

\* C14 witness: a store_session has just failed after its pipeline was
\* applied: the session was not returned, and all three of its families are
\* in the store next to another session
C14_Witness ==
    /\ last.op = "create_session"
    /\ last.kind = "Database"
    /\ last.msg = "Failed to store session"
    /\ nextSid \notin DOMAIN issued
    /\ nextSid \in DOMAIN sessionKeys
    /\ Families(Store, sessionKeys[nextSid].data) = <<TRUE, TRUE, TRUE>>
    /\ Cardinality(DOMAIN sessionKeys) >= 2

\* C15: remove_session and remove_user_sessions are idempotent: each returns
\* success, a second call changes nothing, and a call for an id that is not
\* in the store leaves all three key families as they were.
C15_RemoveIsIdempotent ==
    /\ \A sid \in 1..(MaxSessions + 1) :
           LET once  == RemoveSessionWith(Store, sid, "none")
               twice == RemoveSessionWith(once.store, sid, "none")
           IN  /\ once.result.kind = "Ok"
               /\ twice.result.kind = "Ok"
               /\ twice.store = once.store
               /\ GetSession(Store, sid) = None => once.store = Store
    /\ \A uid \in 1..(MaxUsers + 1) :
           LET once == RemoveUserSessionsIn(Store, uid) IN
           /\ RemoveUserSessionsIn(once, uid) = once
           /\ (\A sid \in DOMAIN sessionKeys : sessionKeys[sid].data.user_id # uid)
                  => once = Store
    /\ last.op \in {"remove_session", "remove_user_sessions"} => last.kind = "Ok"

\* C15 witness: remove_session has just been called for a session that was
\* issued, has not expired, and was already removed: it changed nothing
C15_Witness ==
    /\ last.op = "remove_session"
    /\ last.kind = "Ok"
    /\ last.gone = {}
    /\ last.sid \in DOMAIN issued
    /\ issued[last.sid].session.expires_at > now
    /\ Cardinality(DOMAIN sessionKeys) >= 1

\* C16: every repository query that follows set_tenant_context(tenant) in a
\* unit of work runs on a connection whose app.current_tenant is that tenant.
C16_QueryRunsOnBoundConnection ==
    \A task \in Tasks :
        IsSome(work[task].seen) => Unwrap(work[task].seen) = work[task].tenant

C18_ListUsersOnlyBoundTenant ==
    \A task \in Tasks :
        (work[task].query = "list_users" /\ IsSome(work[task].seen)) =>
            \A user \in work[task].rows : user.tenant_id = work[task].tenant

\* C19: update_user changes a stored row only when id and tenant_id both
\* match it; when no row matches, as for the right id with another tenant's
\* tenant_id, it returns NotFound and every stored user stays as it was.
C19_UpdateMatchesIdAndTenant ==
    \A row \in users, tenant_id \in Tenants :
        \A changed \in Changed(row) :
            LET user == [changed EXCEPT !.tenant_id = tenant_id]
                r    == UpdateUser(users, user)
                hit  == {x \in users : x.id = user.id /\ x.tenant_id = user.tenant_id}
            IN  /\ users \ hit \subseteq r.users
                /\ \A x \in r.users \ users : r.result.value = Some(x)
                /\ IF hit = {}
                   THEN /\ r.result.kind = "NotFound"
                        /\ HttpStatus(r.result.kind) = 404
                        /\ r.users = users
                   ELSE /\ r.result.kind = "Ok"
                        /\ Unwrap(r.result.value).id = user.id
                        /\ Unwrap(r.result.value).tenant_id = user.tenant_id
                        /\ Unwrap(r.result.value) \in r.users
                        /\ Cardinality(r.users) = Cardinality(users)

\* C19 witness: update_user has just returned NotFound for the id of a stored
\* user, presented with another tenant's tenant_id
C19_Witness ==
    /\ last.op = "update_user"
    /\ last.kind = "NotFound"
    /\ \E x \in users : x.id = last.uid

\* C20: register_user with an email already registered in the tenant fails
\* with the Conflict error kind and leaves the stored users unchanged.
C20_DuplicateIsConflict ==
    \A credentials \in Registrations :
        LET r == RegisterUserIn(users, nextUid + 1, credentials) IN
        Matching(users, credentials.email, credentials.tenant_id) # {} =>
            /\ r.result.kind = "Conflict"
            /\ r.users = users

\* C21: after register_user(credentials) has succeeded, authenticate with the
\* same credentials (MFA not enabled) succeeds and returns a stored session
\* whose user_id and tenant_id are those of the registered user.
C21_RegisterThenLogin ==
    \A credentials \in Registrations, mfa_code \in {None} \cup {Some(c) : c \in Codes} :
        LET reg == RegisterUserIn(users, nextUid + 1, credentials) IN
        reg.result.kind = "Ok" =>
            LET user == Unwrap(reg.result.value)
                auth == AuthenticateIn(reg.users, Store, nextSid + 1,
                                       [credentials EXCEPT !.mfa_code = mfa_code], "none")
            IN  /\ auth.result.kind = "Ok"
                /\ Unwrap(auth.result.value).user_id = user.id
                /\ Unwrap(auth.result.value).tenant_id = user.tenant_id
                /\ GetSession(auth.store, nextSid + 1) = auth.result.value

\* C21 witness: a user registered in this run, unchanged since, has just
\* logged in and holds a stored session
C21_Witness ==
    /\ last.op = "authenticate"
    /\ last.kind = "Ok"
    /\ \E user \in users :
           /\ user.id = last.uid
           /\ ~user.mfa_enabled
           /\ user.active
           /\ IsSome(user.last_login)
           /\ issued[nextSid].session.user_id = user.id
           /\ issued[nextSid].session.tenant_id = user.tenant_id
           /\ IsSome(GetSession(Store, nextSid))

\* C22: a permission whose resource is "*" matches any resource: when a role
\* of the user holds ("*", action), has_permission answers true for
\* (resource, action) whatever the resource.
C22_WildcardMatchesAnyResource ==
    \A check \in PermissionChecks :
        (/\ rbac.check = Some(check)
         /\ \E i \in DOMAIN rbac.roles :
               \E j \in DOMAIN rbac.roles[i].permissions :
                   /\ rbac.roles[i].permissions[j].resource = "*"
                   /\ rbac.roles[i].permissions[j].action = check.action)
        => rbac.answer

\* C23: for a user whose only permission is (r, Admin), has_permission is
\* true for (r, a) for every action a and false for (r2, a) for every other
\* resource r2; has_all_permissions is true for the actions on r together.
C23_AdminGrantsAllOnItsResource ==
    \A r \in HeldResources :
        rbac.roles = <<[permissions |-> <<[resource |-> r, action |-> "Admin"]>>]>> =>
            /\ \A check \in PermissionChecks :
                   HasPermission(rbac, RbacUser, check) <=> check.resource = r
            /\ HasAllPermissions(rbac, RbacUser,
                                 {check \in PermissionChecks : check.resource = r})
            /\ IsSome(rbac.check) =>
                   (rbac.answer <=> Unwrap(rbac.check).resource = r)

\* C23 witness: the user's only permission is ("posts", Admin) and
\* has_permission has just answered true for ("posts", Delete)
C23_Witness ==
    /\ rbac.roles = <<[permissions |-> <<[resource |-> "posts", action |-> "Admin"]>>]>>
    /\ rbac.check = Some([resource |-> "posts", action |-> "Delete"])
    /\ rbac.answer

\* C24: a permission decision depends only on the user's roles: two users
\* with the same roles, whatever their id and tenant, get the same answer for
\* every check, in every state of the permissions cache.
C24_DecisionDependsOnlyOnRoles ==
    \A check \in PermissionChecks :
        /\ \A u \in RbacUsers(rbac.roles) :
               HasPermission(rbac, u, check) = HasPermission(rbac, RbacUser, check)
        /\ \A tenant_id \in Tenants :
               HasPermission([rbac EXCEPT !.permissions_cache =
                                 Put(@, tenant_id, PermissionChecks)], RbacUser, check)
               = HasPermission([rbac EXCEPT !.permissions_cache = <<>>], RbacUser, check)
        /\ rbac.check = Some(check) => HasPermission(rbac, RbacUser, check) = rbac.answer

\* C24 witness: the cache holds every permission for the user's tenant and
\* none for the other, and has_permission has just refused a check
C24_Witness ==
    /\ DOMAIN rbac.permissions_cache = {"T1"}
    /\ rbac.roles # <<>>
    /\ IsSome(rbac.check)
    /\ Unwrap(rbac.check) \in rbac.permissions_cache["T1"]
    /\ ~rbac.answer

\* C25: verify_code returns false, never an error, when the secret is not
\* valid base32, so a login of a user with a malformed secret ends in the
\* Authentication kind, as it does for a wrong code.
C25_MalformedSecretIsWrongCode ==
    \A user \in users, code \in Codes :
        (user.mfa_enabled /\ IsSome(user.mfa_secret)
            /\ ~Base32Decodes(Unwrap(user.mfa_secret))) =>
            /\ VerifyCode(Unwrap(user.mfa_secret), code) = Ok(FALSE)
            /\ \A credentials \in Logins :
                   (/\ credentials.tenant_id = user.tenant_id
                    /\ credentials.email = user.email
                    /\ credentials.mfa_code = Some(code)
                    /\ VerifyPassword(credentials.password, user.password_hash) = Ok(TRUE))
                   => AuthenticateIn(users, Store, nextSid + 1, credentials,
                                     "none").result.kind = "Authentication"

\* C26: every error kind maps to exactly one HTTP status (Authentication 401,
\* Authorization 403, NotFound 404, InvalidInput 400, Validation 400,
\* Database 500, Internal 500), and a row-not-found store error converts to
\* NotFound while every other store error converts to Database.
C26_ErrorKindsAndStatuses ==
    /\ \A kind \in ErrorKinds :
           HttpStatus(kind) =
               CASE kind = "Authentication" -> 401
                 [] kind = "Authorization"  -> 403
                 [] kind = "NotFound"       -> 404
                 [] kind \in {"InvalidInput", "Validation"} -> 400
                 [] kind \in {"Database", "Internal"}       -> 500
    /\ \A err \in SqlxErrors :
           FromSqlx(err).kind = IF err = "RowNotFound" THEN "NotFound" ELSE "Database"
    /\ \A row \in users, tenant_id \in Tenants :
           LET r == UpdateUser(users, [row EXCEPT !.tenant_id = tenant_id]) IN
           r.result.kind \in {"Ok", "NotFound"}
    /\ \A credentials \in Registrations :
           RegisterUserIn(users, nextUid + 1, credentials).result.kind \in {"Ok", "Database"}
    /\ last.kind \in ErrorKinds \cup {"Ok"}

\* C26 witness: a second registration of the same email has just failed on the
\* unique index: the store error became a Database error, status 500
C26_Witness ==
    /\ last.op = "register_user"
    /\ last.kind = "Database"
    /\ HttpStatus(last.kind) = 500
    /\ users # {}

\* C27: after delete_user(userId, tenantId) has succeeded, no session issued
\* for that user remains in the session store and none of its tokens
\* validates.
C27_DeleteUserCascadesToSessions ==
    (last.op = "delete_user" /\ last.kind = "Ok") =>
        \A sid \in IssuedFor(last.uid) :
            /\ GetSession(Store, sid) = None
            /\ ValidateTokenIn(Store, issued[sid].session.token).result.kind # "Ok"

\* C28: while a tenant has active = false, authenticate fails for every user
\* of that tenant whatever the credentials, and issues no session.
C28_InactiveTenantCannotLogin ==
    \A credentials \in Logins :
        ~tenants[credentials.tenant_id].active =>
            LET r == AuthenticateIn(users, Store, nextSid + 1, credentials, "none") IN
            /\ r.result.kind # "Ok"
            /\ r.store = Store

Steps(seq) == {seq[i] : i \in DOMAIN seq}

\* C29: the checks of a login run in the order lookup, active, password,
\* MFA code present, MFA code valid, and the outcome is that of the first
\* failing check: a wrong password for an MFA-enabled user who sent no code
\* gives "Invalid credentials" of the Authentication kind, no TOTP
\* verification runs before the password has verified, and last_login is
\* updated and the session stored only after every check has passed.
C29_ChecksInOrder ==
    \A credentials \in Logins :
        LET found == GetUserByEmail(users, credentials.email, credentials.tenant_id)
            user  == Unwrap(found)
            steps == AuthenticateSteps(users, credentials, "none")
            r     == AuthenticateIn(users, Store, nextSid + 1, credentials, "none")
        IN  IsSome(found) =>
            /\ (/\ user.mfa_enabled
                /\ credentials.mfa_code = None
                /\ VerifyPassword(credentials.password, user.password_hash) = Ok(FALSE))
               => (r.result.kind = "Authentication" /\ r.result.msg = "Invalid credentials")
            /\ "verify_code" \in Steps(steps) =>
                   VerifyPassword(credentials.password, user.password_hash) = Ok(TRUE)
            /\ (r.users # users \/ r.store # Store \/ "update_last_login" \in Steps(steps)) =>
                   /\ user.active
                   /\ VerifyPassword(credentials.password, user.password_hash) = Ok(TRUE)
                   /\ user.mfa_enabled =>
                          /\ IsSome(credentials.mfa_code)
                          /\ IsSome(user.mfa_secret)
                          /\ VerifyCode(Unwrap(user.mfa_secret),
                                        Unwrap(credentials.mfa_code)) = Ok(TRUE)

\* C30: every authenticate call verifies a password before it returns: with
\* no user for (email, tenant_id) a verification against a dummy hash runs,
\* so the run makes the same calls as that of a known user with a wrong
\* password and returns the same error.
C30_UnknownUserVerifiesDummyHash ==
    \A credentials \in Logins :
        LET found == GetUserByEmail(users, credentials.email, credentials.tenant_id)
            steps == AuthenticateSteps(users, credentials, "none")
            r     == AuthenticateIn(users, Store, nextSid + 1, credentials, "none")
        IN  ~IsSome(found) =>
            /\ r.result = Err("Authentication", "Invalid credentials")
            /\ steps = <<"get_user_by_email", "verify_password">>

\* C31: at every point during and after refresh_session(sid), also when it
\* fails between its steps, the store holds the old session, the new one, or
\* both, never neither.
C31_RefreshNeverLosesBoth ==
    /\ \A session_id \in DOMAIN sessionKeys, fault \in {"none"} \cup FaultsOfStore :
           LET after == RefreshSessionIn(Store, nextSid + 1, session_id, fault).store IN
           \/ IsSome(GetSession(after, session_id))
           \/ IsSome(GetSession(after, nextSid + 1))
    /\ (last.op = "refresh_session" /\ last.msg # "Invalid session") =>
           \/ IsSome(GetSession(Store, last.sid))
           \/ /\ last.kind = "Ok"
              /\ IsSome(GetSession(Store, nextSid))

\* C31 witness: a refresh_session has just failed in the pipeline of
\* store_session, and the session it was to replace is still in the store
C31_Witness ==
    /\ last.op = "refresh_session"
    /\ last.kind = "Database"
    /\ last.msg = "Failed to store session"
    /\ IsSome(GetSession(Store, last.sid))
    /\ GetSessionByToken(Store, Unwrap(GetSession(Store, last.sid)).token)
           = GetSession(Store, last.sid)

C33_UserSetIsPruned ==
    last.op = "remove_user_sessions" =>
        \A sid \in SMembers(Store, last.uid) : IsSome(GetSession(Store, sid))

\* C34: store_session sets the TTL of session:{sid} and of token:{token} to
\* expires_at - now clamped to >= 0: it never passes a negative TTL to the
\* store, also for a session whose expires_at lies in the past.
C34_TtlIsClamped ==
    last.op = "store_session" => last.ttl >= 0

\* C35: for a User created by User::new and changed only through enable_mfa
\* and disable_mfa, mfa_enabled is true exactly when mfa_secret is present,
\* after any sequence of those calls.
C35_MfaEnabledIffSecret ==
    /\ \A user \in users : user.mfa_enabled <=> IsSome(user.mfa_secret)
    /\ \A user \in users :
           /\ ~DisableMfa(user).mfa_enabled
           /\ DisableMfa(user).mfa_secret = None
           /\ \A secret \in Secrets :
                  /\ EnableMfa(user, secret).mfa_enabled
                  /\ EnableMfa(user, secret).mfa_secret = Some(secret)
    /\ \A credentials \in Registrations :
           LET user == UserNew(nextUid + 1, credentials.tenant_id, credentials.email,
                               HashPassword(credentials.password))
           IN  ~user.mfa_enabled /\ user.mfa_secret = None

\* C35 witness: disable_mfa has just been written back for a user who had
\* logged in, next to a user whose second factor is on with its secret
C35_Witness ==
    /\ last.op = "disable_mfa"
    /\ last.kind = "Ok"
    /\ \E user \in users, other \in users :
           /\ user.id = last.uid
           /\ IsSome(user.last_login)
           /\ ~user.mfa_enabled
           /\ user.mfa_secret = None
           /\ other.mfa_enabled
           /\ other.mfa_secret = Some(GoodSecret)

\* C36: a refresh_session(sid) that runs concurrently with remove_session(sid)
\* or remove_user_sessions(uid) cannot resurrect the login: once the removal
\* has returned and the refresh has finished, the store holds no session
\* derived from the removed session.
C36_RefreshCannotResurrect ==
    (refreshing.pc = "done" /\ refreshing.raced /\ last.op = "refresh_session") =>
        \A sid \in DOMAIN sessionKeys :
            sessionKeys[sid].data.token # Unwrap(refreshing.old).token

\* C37: remove_session(sid) removes only that session: every other stored
\* session, of any user, stays retrievable by its id and by its token
\* afterwards, also when several stored sessions carry the same token.
C37_RemoveSessionRemovesOnlyThat ==
    [][last'.op = "remove_session" =>
          \A other \in DOMAIN sessionKeys \ {last'.sid} :
              LET token == sessionKeys[other].data.token IN
              /\ GetSession(Store', other) = GetSession(Store, other)
              /\ GetSessionByToken(Store', token) = GetSessionByToken(Store, token)]_vars

\* C38: whenever authenticate or authenticate_with_mfa returns an error, it
\* has changed nothing: no session was added to the session store and the
\* user's last_login is unchanged.
C38_FailedLoginChangesNothing ==
    [][(last'.op \in {"authenticate", "authenticate_with_mfa"} /\ last'.kind # "Ok") =>
          /\ users' = users
          /\ Store' = Store]_vars

\* Two logins with the same outcome (the same error kind, or a session for the
\* same user and tenant) and the same effects on the users and on the store
SameOutcome(a, m) ==
    /\ a.result.kind = m.result.kind
    /\ a.result.kind = "Ok" =>
           /\ Unwrap(a.result.value).user_id = Unwrap(m.result.value).user_id
           /\ Unwrap(a.result.value).tenant_id = Unwrap(m.result.value).tenant_id
    /\ a.users = m.users
    /\ a.store = m.store

\* C39 as stated: the two login entry points agree: for every stored user,
\* password and code c, authenticate(credentials with mfa_code = Some(c)) and
\* authenticate_with_mfa(credentials, c) give the same outcome and the same
\* effects on last_login and on the session store.
C39_EntryPointsAgree ==
    \A credentials \in Logins, c \in Codes :
        IsSome(GetUserByEmail(users, credentials.email, credentials.tenant_id)) =>
            SameOutcome(AuthenticateIn(users, Store, nextSid + 1,
                                       [credentials EXCEPT !.mfa_code = Some(c)], "none"),
                        AuthenticateWithMfaIn(users, Store, nextSid + 1, credentials, c,
                                              "none"))

\* C39 as amended: for every stored user with mfa_enabled the two entry points
\* give the same outcome and the same effects, whatever the password, the
\* code and the fault; for a stored user without MFA they agree when the
\* password is wrong, and with the right password authenticate ignores the
\* code and issues its session while authenticate_with_mfa returns the
\* Authentication error "MFA not enabled for this user" and changes nothing.
C39_EntryPointsAgreeUnderMfa ==
    \A credentials \in Logins, c \in Codes, fault \in Faults :
        LET found == GetUserByEmail(users, credentials.email, credentials.tenant_id)
            user  == Unwrap(found)
            with  == [credentials EXCEPT !.mfa_code = Some(c)]
            a     == AuthenticateIn(users, Store, nextSid + 1, with, fault)
            m     == AuthenticateWithMfaIn(users, Store, nextSid + 1, credentials, c, fault)
        IN  IsSome(found) =>
            IF \/ user.mfa_enabled
               \/ fault = "db_lookup"
               \/ VerifyPassword(credentials.password, user.password_hash) # Ok(TRUE)
            THEN SameOutcome(a, m)
            ELSE /\ m.result = Err("Authentication", "MFA not enabled for this user")
                 /\ m.users = users
                 /\ m.store = Store
                 /\ a = IssueSession(users, Store, nextSid + 1, user, fault)
                 /\ fault = "none" => a.result.kind = "Ok"

\* C39 witness: a user with the second factor on has just logged in through
\* authenticate_with_mfa, and authenticate with the same password and the
\* current code would be let in as well
C39_Witness ==
    /\ last.op = "authenticate_with_mfa"
    /\ last.kind = "Ok"
    /\ IsSome(GetSession(Store, nextSid))
    /\ \E user \in users :
           /\ user.id = last.uid
           /\ user.mfa_enabled
           /\ IsSome(user.last_login)
           /\ \E password \in Passwords :
                  AuthenticateIn(users, Store, nextSid + 1,
                                 [email |-> user.email, password |-> password,
                                  tenant_id |-> user.tenant_id,
                                  mfa_code |-> Some(CurrentCode)], "none").result.kind = "Ok"

\* C40: the two RBAC views agree: for every user, resource and action,
\* has_permission(user, (resource, action)) is true exactly when
\* (resource, action) is a member of get_user_permissions(user).
C40_PermissionViewsAgree ==
    \A check \in PermissionChecks :
        rbac.check = Some(check) =>
            (rbac.answer <=> check \in GetUserPermissions(rbac, RbacUser))

====
